---- MODULE Spec2Model ----
(***************************************************************************)
(* Model of the JFIF/JPEG header parser of src/main.cpp: the canonical     *)
(* Huffman table builder (HuffmanTable::from_size_data, make_code_table)   *)
(* and the marker scanning loop (JPEGParser::parse) with its segment       *)
(* decoders.                                                               *)
(*                                                                         *)
(* Bytes are 0..255, unsigned short values 0..65535.  A read outside a     *)
(* vector is undefined behaviour: the model lets the run crash, or go on   *)
(* with the byte `garbage` that the memory after the vector holds.         *)
(***************************************************************************)
EXTENDS Integers, Sequences, FiniteSets, TLC

\* ------------------------------------------------------------------------
\* Program constants
\* ------------------------------------------------------------------------
\* std::array<unsigned char, 16> size_data: one count per bit length 1..16
HuffSizes == 16
\* std::array<unsigned short, 64> data
QTableSize == 64
\* std::array<QuantizationTable, 4> q_tables
QTableSlots == 4
\* std::array<HuffmanTable, 32> huffman_ac_tables / huffman_dc_tables
HuffSlots == 32
\* the code value at which make_code_table stops (0xffff)
CodeSentinel == 65535
\* unsigned short is 16 bits wide, unsigned char 8 bits
TwoTo16 == 65536
TwoTo8 == 256

\* ------------------------------------------------------------------------
\* Bounds of the model
\* ------------------------------------------------------------------------
\* codes per Huffman table in the enumerated count vectors
MaxCodes == 3
\* segments (chunks) per input stream
MaxChunks == 3

\* ------------------------------------------------------------------------
\* Arithmetic helpers
\* ------------------------------------------------------------------------
RECURSIVE Pow2(_)
Pow2(n) == IF n = 0 THEN 1 ELSE 2 * Pow2(n - 1)

RECURSIVE SumSeq(_)
SumSeq(s) == IF s = <<>> THEN 0 ELSE s[1] + SumSeq(Tail(s))

Repeat(x, n) == [i \in 1..n |-> x]

RECURSIVE Concat(_)
Concat(ss) == IF ss = <<>> THEN <<>> ELSE ss[1] \o Concat(Tail(ss))

\* the unsigned short read where a vector<unsigned short> has no element:
\* two bytes of the memory after the vector
GarbageWord(g) == g * TwoTo8 + g

\* ------------------------------------------------------------------------
\* HuffmanTable::from_size_data and make_code_table
\* ------------------------------------------------------------------------
\* lines 61-66: the bit length of every code, length i+1 repeated size_data[i] times
RECURSIVE ExpandLengths(_, _)
ExpandLengths(size_data, i) ==
    IF i > Len(size_data) THEN <<>>
    ELSE Repeat(i, size_data[i]) \o ExpandLengths(size_data, i + 1)

codes_length(size_data) == ExpandLengths(size_data, 1)

\* a builder that never shifts the code
ShiftForgotten(code, d) == code

\* line 84, `code <<= 1` on an unsigned short, d times: the bits shifted out
\* of the 16 are lost
ShiftLeft16(code, d) == (code * Pow2(d)) % TwoTo16

\* a builder that forgets `code += 1`
Increment16Forgotten(code) == code

\* line 91, `code += 1` on an unsigned short
Increment16(code) == (code + 1) % TwoTo16

\* line 88: the loop stops after pushing the code
StopAssigning(current_size, code) == current_size > HuffSizes \/ code = CodeSentinel

\* lines 81-92: the loop over sizes from position i on.  `wrapped` records
\* whether a shift or an increment lost a bit of the 16-bit code.
RECURSIVE CodeLoop(_, _, _, _, _, _)
CodeLoop(sizes, i, code, current_size, code_table, wrapped) ==
    IF i > Len(sizes) THEN [code_table |-> code_table, wrapped |-> wrapped]
    ELSE LET size == sizes[i]
             d == IF size > current_size THEN size - current_size ELSE 0
             shifted == ShiftLeft16(code, d)
             cur == current_size + d
             table == Append(code_table, shifted)
             w1 == wrapped \/ code * Pow2(d) >= TwoTo16
         IN  IF StopAssigning(cur, shifted)
             THEN [code_table |-> table, wrapped |-> w1]
             ELSE CodeLoop(sizes, i + 1, Increment16(shifted), cur, table,
                           w1 \/ shifted + 1 >= TwoTo16)

\* lines 77-94.  sizes[0] of an empty vector is read at line 80 (undefined);
\* the loop then runs zero times, so the value read is never used.
CodeRun(sizes) ==
    CodeLoop(sizes, 1, 0, IF sizes = <<>> THEN 0 ELSE sizes[1], <<>>, FALSE)

make_code_table(sizes) == CodeRun(sizes).code_table

\* lines 68-73: one HuffmanCode per element of data_area; codes_length[i] and
\* code_table[i] are read without a bounds check, g is what is read past the end
from_size_data(size_data, data_area, g) ==
    LET lens == codes_length(size_data)
        code_table == make_code_table(lens)
    IN  [i \in 1..Len(data_area) |->
            [length |-> IF i <= Len(lens) THEN lens[i] ELSE g,
             code   |-> IF i <= Len(code_table) THEN code_table[i] ELSE GarbageWord(g),
             value  |-> data_area[i]]]

\* the reads of from_size_data / make_code_table that fall outside a vector:
\* sizes[0] of an empty vector (line 80), codes_length[i] or code_table[i]
\* past the end (line 71)
HuffmanReadsOutside(size_data, data_area) ==
    LET lens == codes_length(size_data)
    IN  \/ lens = <<>>
        \/ Len(data_area) > Len(make_code_table(lens))

\* ------------------------------------------------------------------------
\* State
\* ------------------------------------------------------------------------
VARIABLES
    raw_data,       \* JPEGParser::raw_data, the whole input (position 0 is raw_data[1])
    garbage,        \* the byte held by the memory read outside a vector
    index,          \* JPEGParser::index, the cursor
    pc,             \* where parse() is: "scan" (line 192), "segment" (line 210),
                    \* "returned" (257), "terminated" (254), "crashed", "idle"
    marker,         \* local of parse(), line 195
    length,         \* local of parse(), line 204
    segment_end,    \* local of parse(), line 205
    jfif_data,      \* local of parse(), line 185
    q_tables,       \* local of parse(), line 187: slots 0..3
    q_tables_nbr,   \* local of parse(), line 188 (unsigned char)
    h_ac_tables,    \* local of parse(), line 190: slots 0..31
    h_dc_tables,    \* local of parse(), line 191: slots 0..31
    log,            \* what line 208 printed: <<marker, index>> per segment
    outside,        \* number of steps that accessed memory outside a container
    result,         \* <<>>, or <<the JPEGEncoded returned at line 257>>
    size_data,      \* argument of from_size_data (builder runs)
    data_area,      \* argument of from_size_data (builder runs)
    hpc,            \* builder run: "call", "built", "crashed", "idle"
    huffman_codes   \* the codes of the HuffmanTable the builder returned

parserVars == <<raw_data, garbage, index, pc, marker, length, segment_end, jfif_data,
                q_tables, q_tables_nbr, h_ac_tables, h_dc_tables, log, outside, result>>
builderVars == <<size_data, data_area, hpc, huffman_codes>>
vars == <<parserVars, builderVars>>

\* steps with an access outside a container that a run is followed through;
\* after that many the only outcome modelled is the crash
MaxOutside == 2

\* what the memory outside a vector may hold
GarbageBytes == {0, 1}

\* ------------------------------------------------------------------------
\* Reading raw_data (std::vector::operator[] and iterators: no bounds check)
\* ------------------------------------------------------------------------
Size == Len(raw_data)

Mem(i) == IF i < Size THEN raw_data[i + 1] ELSE garbage

MemSlice(lo, n) == [i \in 1..n |-> Mem(lo + i - 1)]

\* reading n bytes from position lo leaves the buffer
ReadsOutside(lo, n) == n > 0 /\ lo + n > Size

HighNibble(b) == b \div 16
\* the identifier is not looked at
LowNibbleDropped(b) == 0

LowNibble(b) == b % 16

\* utils.h is not part of the sources: big-endian, as the specification says
u8_to_u16(hi, lo) == hi * TwoTo8 + lo

\* ------------------------------------------------------------------------
\* Segment decoders: each returns the value decoded at cursor idx, the cursor
\* after it and whether it accessed memory outside a vector
\* ------------------------------------------------------------------------
\* pixels taken three bytes each from behind the 14 header bytes
ThumbnailPixelsAtCursor(n) ==
    [i \in 1..n |-> <<Mem(index + 14 + 3 * (i - 1)), Mem(index + 15 + 3 * (i - 1)),
                      Mem(index + 16 + 3 * (i - 1))>>]

\* lines 139-145: pixel i is raw_data[i], raw_data[i+1], raw_data[i+2], counted
\* from the start of the buffer
ThumbnailPixels(n) == [i \in 1..n |-> <<Mem(i - 1), Mem(i), Mem(i + 1)>>]

\* a decoder that consumes 13 bytes instead of 14 (one thumbnail byte left)
parse_jfif_data_short(idx) ==
    [index |-> idx + 13,
     outside |-> ReadsOutside(idx + 5, 8),
     value |-> [version |-> <<Mem(idx + 5), Mem(idx + 6)>>,
                density_unit |-> Mem(idx + 7),
                x_density |-> u8_to_u16(Mem(idx + 8), Mem(idx + 9)),
                y_density |-> u8_to_u16(Mem(idx + 10), Mem(idx + 11)),
                x_thumbnail |-> Mem(idx + 12),
                y_thumbnail |-> 0,
                thumbnail_data |-> <<>>]]

\* lines 122-147
parse_jfif_data(idx) ==
    LET x_thumbnail == Mem(idx + 12)
        y_thumbnail == Mem(idx + 13)
        n == x_thumbnail * y_thumbnail
    IN  [index |-> idx + 14,
         outside |-> ReadsOutside(idx + 5, 9) \/ ReadsOutside(0, IF n = 0 THEN 0 ELSE n + 2),
         value |-> [version |-> <<Mem(idx + 5), Mem(idx + 6)>>,
                    density_unit |-> Mem(idx + 7),
                    x_density |-> u8_to_u16(Mem(idx + 8), Mem(idx + 9)),
                    y_density |-> u8_to_u16(Mem(idx + 10), Mem(idx + 11)),
                    x_thumbnail |-> x_thumbnail,
                    y_thumbnail |-> y_thumbnail,
                    thumbnail_data |-> ThumbnailPixels(n)]]

\* lines 149-167: precision and identifier are computed and dropped; the
\* QuantizationTable returned holds the 64 values only
parse_quantization_table(idx) ==
    [index |-> idx + 1 + QTableSize,
     outside |-> ReadsOutside(idx, 1 + QTableSize),
     value |-> [data |-> MemSlice(idx + 1, QTableSize)]]

\* lines 169-181
parse_huffman_table(idx) ==
    LET sizes == MemSlice(idx, HuffSizes)
        codes_count == SumSeq(sizes)
        symbols == MemSlice(idx + HuffSizes, codes_count)
    IN  [index |-> idx + HuffSizes + codes_count,
         outside |-> \/ ReadsOutside(idx, HuffSizes + codes_count)
                     \/ HuffmanReadsOutside(sizes, symbols),
         value |-> [codes |-> from_size_data(sizes, symbols, garbage)]]

\* ------------------------------------------------------------------------
\* Marker values (lines 200, 211-241)
\* ------------------------------------------------------------------------
MarkerPrefix == 255
SOI == 216
EOI == 217
APP0 == 224
DQT == 219
DHT == 196
SOF0 == 192
SOS == 218

\* ------------------------------------------------------------------------
\* Input streams: up to MaxChunks chunks, plus a few whole streams
\* ------------------------------------------------------------------------
\* 64 table values that differ by position
Ramp(base) == [i \in 1..QTableSize |-> (base + i) % TwoTo8]

\* one table of a DQT segment: precision/identifier byte, then the 64 values
DqtTableBytes(pq_id, base) == <<pq_id>> \o Ramp(base)

\* one table of a DHT segment: class/identifier byte, 16 counts, the symbols
DhtTableBytes(tc_th, counts, symbols) == <<tc_th>> \o counts \o symbols

CountsOf(first) == first \o Repeat(0, HuffSizes - Len(first))

\* marker, big-endian length (2 + payload + extra), payload
Segment(m, payload, extra) ==
    LET l == 2 + Len(payload) + extra
    IN  <<MarkerPrefix, m, l \div TwoTo8, l % TwoTo8>> \o payload

\* "JFIF\0", version 1.major, unit, densities 72x72, thumbnail w x h
App0Payload(minor, unit, w, h) ==
    <<74, 70, 73, 70, 0, 1, minor, unit, 0, 72, 0, 72, w, h>>

Chunks ==
    { <<MarkerPrefix, SOI>>,
      Segment(APP0, App0Payload(1, 1, 0, 0), 0),
      Segment(APP0, App0Payload(2, 3, 1, 1), 0),
      Segment(DQT, DqtTableBytes(1, 100) \o DqtTableBytes(17, 150), 0),
      \* declares 67 bytes, 10 of them missing
      Segment(DQT, SubSeq(DqtTableBytes(2, 30), 1, QTableSize - 9), 10),
      Segment(DHT, DhtTableBytes(0, CountsOf(<<1, 1>>), <<1, 2>>), 0),
      Segment(DHT, DhtTableBytes(17, CountsOf(<<0, 1>>), <<171>>)
                   \o DhtTableBytes(0, CountsOf(<<0, 2, 1>>), <<5, 6, 7>>), 0),
      Segment(SOF0, <<8, 0>>, 0),
      Segment(225, <<9>>, 0),
      Segment(SOS, <<>>, 0),
      <<0>> }

ChunkSeqs == UNION { [1..n -> Chunks] : n \in 0..MaxChunks }

\* whole streams for cases the chunks do not combine into
ExtraStreams ==
    \* SOI, one APP0 of length 16 with a valid unit and no thumbnail, EOI
    { <<MarkerPrefix, SOI>> \o Segment(APP0, App0Payload(minor, unit, 0, 0), 0)
        \o <<MarkerPrefix, EOI>> : minor \in {1, 2}, unit \in {0, 1, 2} }
    \cup
    \* five quantization tables in one segment
    { Segment(DQT, DqtTableBytes(0, 1) \o DqtTableBytes(1, 2) \o DqtTableBytes(2, 3)
                   \o DqtTableBytes(3, 4) \o DqtTableBytes(0, 5), 0) }
    \cup
    \* a segment whose declared length is 0, 1, or more than what is left
    { <<MarkerPrefix, m, l[1], l[2], 7, 7>> :
        m \in {225, SOF0, DQT, DHT, APP0, SOS},
        l \in {<<0, 0>>, <<0, 1>>, <<0, 9>>, <<1, 0>>, <<255, 255>>} }
    \cup
    \* APP0 segments with thumbnails of 4, 3, 0 and 25 pixels, the last more
    \* than the buffer holds
    { Segment(APP0, App0Payload(1, 1, wh[1], wh[2]), 0) \o <<MarkerPrefix, EOI>> :
        wh \in {<<2, 2>>, <<1, 3>>, <<3, 0>>, <<5, 5>>} }
    \cup
    \* a quantization segment that declares 4 bytes and carries a whole table
    { <<MarkerPrefix, DQT, 0, 4>> \o DqtTableBytes(0, 10) \o <<MarkerPrefix, EOI>> }
    \cup
    \* a marker cut after its prefix, a length cut after its first byte
    { <<MarkerPrefix>>, <<MarkerPrefix, DQT, 0>> }

Inputs == { Concat(cs) : cs \in ChunkSeqs } \cup ExtraStreams

\* ------------------------------------------------------------------------
\* Initial state
\* ------------------------------------------------------------------------
\* line 185: `JFIFData jfif_data;` leaves the scalar fields uninitialised
UninitJfif(g) ==
    [version |-> <<g, g>>, density_unit |-> g, x_density |-> GarbageWord(g),
     y_density |-> GarbageWord(g), x_thumbnail |-> g, y_thumbnail |-> g,
     thumbnail_data |-> <<>>]

\* lines 187, 190, 191: value-initialised arrays
ZeroTable == [data |-> Repeat(0, QTableSize)]
EmptyHuffman == [codes |-> <<>>]

BuilderIdle ==
    /\ size_data = <<>>
    /\ data_area = <<>>
    /\ hpc = "idle"
    /\ huffman_codes = <<>>

\* lines 109-110 and 185-191: the parser built on an input, parse() entered
Init ==
    /\ raw_data \in Inputs
    /\ garbage \in GarbageBytes
    /\ index = 0
    /\ pc = "scan"
    /\ marker = 0
    /\ length = 0
    /\ segment_end = 0
    /\ jfif_data = UninitJfif(garbage)
    /\ q_tables = [k \in 0..(QTableSlots - 1) |-> ZeroTable]
    /\ q_tables_nbr = 0
    /\ h_ac_tables = [k \in 0..(HuffSlots - 1) |-> EmptyHuffman]
    /\ h_dc_tables = [k \in 0..(HuffSlots - 1) |-> EmptyHuffman]
    /\ log = <<>>
    /\ outside = 0
    /\ result = <<>>
    /\ BuilderIdle

\* ------------------------------------------------------------------------
\* JPEGParser::parse, one action per step of the loop (lines 184-258)
\* ------------------------------------------------------------------------
\* a step that accesses memory outside a container goes on with what it read
\* (counted in `outside`), or the run crashes (action Crash)
GoesOn(o) == ~o \/ outside < MaxOutside
Count(o) == IF o THEN outside + 1 ELSE outside

\* line 204: ((unsigned short) hi << 8) + lo, stored in an unsigned short
SegmentLength(hi, lo) == (hi * TwoTo8 + lo) % TwoTo16

\* a skip that also subtracts the two marker bytes
SkipSegmentLessFour(idx, len) == idx + len - 4

\* a skip of the declared length counted from behind the length bytes
SkipSegmentWhole(idx, len) == idx + len

\* lines 238, 248: `index += length - 2`; length - 2 is an int added to the
\* 64-bit index modulo 2^64, which is index + length - 2 since index >= 4
SkipSegment(idx, len) == idx + len - 2

\* a skip of the declared length only, as for the markers that are skipped
SkipToSegmentEnd(idx) == idx + length - 2

\* line 243: `index += raw_data.size() - index`
SkipToEnd(idx) == idx + (Size - idx)

\* lines 200-202: SOI and EOI have no length
NoLengthMarker(m) == m = SOI \/ m = EOI

\* line 257
Encoded ==
    [metadata |-> jfif_data, q_tables |-> q_tables, q_tables_nbr |-> q_tables_nbr,
     huffman_ac_tables |-> h_ac_tables, huffman_dc_tables |-> h_dc_tables]

\* lines 192, 257: the loop ends, parse() returns
Return ==
    /\ pc = "scan"
    /\ index >= Size
    /\ pc' = "returned"
    /\ result' = <<Encoded>>
    /\ UNCHANGED <<raw_data, garbage, index, marker, length, segment_end, jfif_data,
                   q_tables, q_tables_nbr, h_ac_tables, h_dc_tables, log, outside>>
    /\ UNCHANGED builderVars

\* lines 193-194, 252-255: `throw;` with no exception being handled calls
\* std::terminate: the process ends, parse() does not return
InvalidPrefix ==
    /\ pc = "scan"
    /\ index < Size
    /\ Mem(index) # MarkerPrefix
    /\ pc' = "terminated"
    /\ UNCHANGED <<raw_data, garbage, index, marker, length, segment_end, jfif_data,
                   q_tables, q_tables_nbr, h_ac_tables, h_dc_tables, log, outside,
                   result>>
    /\ UNCHANGED builderVars

\* lines 193-202: SOI or EOI, two bytes consumed
MarkerNoLength ==
    /\ pc = "scan"
    /\ index < Size
    /\ Mem(index) = MarkerPrefix
    /\ NoLengthMarker(Mem(index + 1))
    /\ GoesOn(ReadsOutside(index, 2))
    /\ index' = index + 2
    /\ outside' = Count(ReadsOutside(index, 2))
    /\ UNCHANGED <<raw_data, garbage, pc, marker, length, segment_end, jfif_data,
                   q_tables, q_tables_nbr, h_ac_tables, h_dc_tables, log, result>>
    /\ UNCHANGED builderVars

\* lines 193-208: any other marker, its length read, segment_end computed
SegmentHeader ==
    /\ pc = "scan"
    /\ index < Size
    /\ Mem(index) = MarkerPrefix
    /\ ~NoLengthMarker(Mem(index + 1))
    /\ GoesOn(ReadsOutside(index, 4))
    /\ marker' = Mem(index + 1)
    /\ length' = SegmentLength(Mem(index + 2), Mem(index + 3))
    /\ segment_end' = index + 2 + length'
    /\ index' = index + 4
    /\ log' = Append(log, <<marker', index'>>)
    /\ outside' = Count(ReadsOutside(index, 4))
    /\ pc' = "segment"
    /\ UNCHANGED <<raw_data, garbage, jfif_data, q_tables, q_tables_nbr, h_ac_tables,
                   h_dc_tables, result>>
    /\ UNCHANGED builderVars

\* lines 211-213
App0 ==
    /\ pc = "segment"
    /\ marker = APP0
    /\ LET r == parse_jfif_data(index)
       IN  /\ GoesOn(r.outside)
           /\ jfif_data' = r.value
           /\ index' = r.index
           /\ outside' = Count(r.outside)
    /\ pc' = "scan"
    /\ UNCHANGED <<raw_data, garbage, marker, length, segment_end, q_tables,
                   q_tables_nbr, h_ac_tables, h_dc_tables, log, result>>
    /\ UNCHANGED builderVars

\* line 217: q_tables[q_tables_nbr] = table; a slot past the array is memory
\* outside q_tables (undefined: the step counts as an access outside, the
\* four slots keep their tables, or the run faults)
StoreQTable(tables, nbr, table) ==
    IF nbr < QTableSlots THEN [tables EXCEPT ![nbr] = table] ELSE tables

\* lines 215-219: one turn of the DQT loop
DqtTable ==
    /\ pc = "segment"
    /\ marker = DQT
    /\ index < segment_end
    /\ LET r == parse_quantization_table(index)
           o == r.outside \/ q_tables_nbr >= QTableSlots
       IN  /\ GoesOn(o)
           /\ q_tables' = StoreQTable(q_tables, q_tables_nbr, r.value)
           /\ q_tables_nbr' = (q_tables_nbr + 1) % TwoTo8
           /\ index' = r.index
           /\ outside' = Count(o)
    /\ UNCHANGED <<raw_data, garbage, pc, marker, length, segment_end, jfif_data,
                   h_ac_tables, h_dc_tables, log, result>>
    /\ UNCHANGED builderVars

\* lines 215, 220: the DQT loop ends
DqtDone ==
    /\ pc = "segment"
    /\ marker = DQT
    /\ index >= segment_end
    /\ pc' = "scan"
    /\ UNCHANGED <<raw_data, garbage, index, marker, length, segment_end, jfif_data,
                   q_tables, q_tables_nbr, h_ac_tables, h_dc_tables, log, outside,
                   result>>
    /\ UNCHANGED builderVars

\* lines 223-234: one turn of the DHT loop
DhtTable ==
    /\ pc = "segment"
    /\ marker = DHT
    /\ index < segment_end
    /\ LET table_class == HighNibble(Mem(index))
           table_dest_id == LowNibble(Mem(index))
           r == parse_huffman_table(index + 1)
           o == r.outside \/ ReadsOutside(index, 1)
       IN  /\ GoesOn(o)
           /\ IF table_class = 0
              THEN /\ h_dc_tables' = [h_dc_tables EXCEPT ![table_dest_id] = r.value]
                   /\ UNCHANGED h_ac_tables
              ELSE /\ h_ac_tables' = [h_ac_tables EXCEPT ![table_dest_id] = r.value]
                   /\ UNCHANGED h_dc_tables
           /\ index' = r.index
           /\ outside' = Count(o)
    /\ UNCHANGED <<raw_data, garbage, pc, marker, length, segment_end, jfif_data,
                   q_tables, q_tables_nbr, log, result>>
    /\ UNCHANGED builderVars

\* lines 223, 235: the DHT loop ends
DhtDone ==
    /\ pc = "segment"
    /\ marker = DHT
    /\ index >= segment_end
    /\ pc' = "scan"
    /\ UNCHANGED <<raw_data, garbage, index, marker, length, segment_end, jfif_data,
                   q_tables, q_tables_nbr, h_ac_tables, h_dc_tables, log, outside,
                   result>>
    /\ UNCHANGED builderVars

\* lines 237-240
Sof0 ==
    /\ pc = "segment"
    /\ marker = SOF0
    /\ index' = SkipSegment(index, length)
    /\ pc' = "scan"
    /\ UNCHANGED <<raw_data, garbage, marker, length, segment_end, jfif_data, q_tables,
                   q_tables_nbr, h_ac_tables, h_dc_tables, log, outside, result>>
    /\ UNCHANGED builderVars

\* lines 241-245
Sos ==
    /\ pc = "segment"
    /\ marker = SOS
    /\ index' = SkipToEnd(index)
    /\ pc' = "scan"
    /\ UNCHANGED <<raw_data, garbage, marker, length, segment_end, jfif_data, q_tables,
                   q_tables_nbr, h_ac_tables, h_dc_tables, log, outside, result>>
    /\ UNCHANGED builderVars

\* lines 246-249
OtherMarker ==
    /\ pc = "segment"
    /\ marker \notin {APP0, DQT, DHT, SOF0, SOS}
    /\ index' = SkipSegment(index, length)
    /\ pc' = "scan"
    /\ UNCHANGED <<raw_data, garbage, marker, length, segment_end, jfif_data, q_tables,
                   q_tables_nbr, h_ac_tables, h_dc_tables, log, outside, result>>
    /\ UNCHANGED builderVars

\* the step parse() takes next accesses memory outside a container
NextStepOutside ==
    \/ /\ pc = "scan"
       /\ index < Size
       /\ Mem(index) = MarkerPrefix
       /\ ReadsOutside(index, IF NoLengthMarker(Mem(index + 1)) THEN 2 ELSE 4)
    \/ /\ pc = "segment"
       /\ marker = APP0
       /\ parse_jfif_data(index).outside
    \/ /\ pc = "segment"
       /\ marker = DQT
       /\ index < segment_end
       /\ (parse_quantization_table(index).outside \/ q_tables_nbr >= QTableSlots)
    \/ /\ pc = "segment"
       /\ marker = DHT
       /\ index < segment_end
       /\ (parse_huffman_table(index + 1).outside \/ ReadsOutside(index, 1))

\* undefined behaviour may end the process (a fault on the access)
Crash ==
    /\ NextStepOutside
    /\ pc' = "crashed"
    /\ UNCHANGED <<raw_data, garbage, index, marker, length, segment_end, jfif_data,
                   q_tables, q_tables_nbr, h_ac_tables, h_dc_tables, log, outside,
                   result>>
    /\ UNCHANGED builderVars

Next ==
    \/ Return
    \/ InvalidPrefix
    \/ MarkerNoLength
    \/ SegmentHeader
    \/ App0
    \/ DqtTable
    \/ DqtDone
    \/ DhtTable
    \/ DhtDone
    \/ Sof0
    \/ Sos
    \/ OtherMarker
    \/ Crash

Spec == Init /\ [][Next]_vars

\* ------------------------------------------------------------------------
\* Runs of the builder alone: from_size_data applied to bounded inputs
\* ------------------------------------------------------------------------
\* the bit lengths of up to MaxCodes codes, in ascending order
LengthLists ==
    UNION { { f \in [1..n -> 1..HuffSizes] : \A i \in 1..(n - 1) : f[i] <= f[i + 1] }
            : n \in 0..MaxCodes }

CountsFromLengths(f) ==
    [l \in 1..HuffSizes |-> Cardinality({ i \in DOMAIN f : f[i] = l })]

\* one code at each of the lengths 1..15 and n codes of length 16: with n = 2
\* the last code is 0xffff, with n = 3 one code too many
Ladder(n) == [l \in 1..HuffSizes |-> IF l < HuffSizes THEN 1 ELSE n]

CountVectors ==
    { CountsFromLengths(f) : f \in LengthLists }
    \cup { Ladder(n) : n \in 1..3 }

\* symbols that differ by position
Symbols(base, n) == [i \in 1..n |-> (base + i - 1) % TwoTo8]

\* as many symbols as codes, one fewer, one more
SymbolLists(total) ==
    { Symbols(base, n) : base \in {1, 171},
                         n \in { m \in {total - 1, total, total + 1} : m >= 0 } }

ParserIdle ==
    /\ raw_data = <<>>
    /\ index = 0
    /\ pc = "idle"
    /\ marker = 0
    /\ length = 0
    /\ segment_end = 0
    /\ jfif_data = UninitJfif(garbage)
    /\ q_tables = [k \in 0..(QTableSlots - 1) |-> ZeroTable]
    /\ q_tables_nbr = 0
    /\ h_ac_tables = [k \in 0..(HuffSlots - 1) |-> EmptyHuffman]
    /\ h_dc_tables = [k \in 0..(HuffSlots - 1) |-> EmptyHuffman]
    /\ log = <<>>
    /\ outside = 0
    /\ result = <<>>

BuilderInit ==
    /\ garbage \in GarbageBytes
    /\ ParserIdle
    /\ size_data \in CountVectors
    /\ data_area \in SymbolLists(SumSeq(size_data))
    /\ hpc = "call"
    /\ huffman_codes = <<>>

\* lines 60-74: the call returns a HuffmanTable
Build ==
    /\ hpc = "call"
    /\ huffman_codes' = from_size_data(size_data, data_area, garbage)
    /\ outside' = Count(HuffmanReadsOutside(size_data, data_area))
    /\ hpc' = "built"
    /\ UNCHANGED <<raw_data, garbage, index, pc, marker, length, segment_end, jfif_data,
                   q_tables, q_tables_nbr, h_ac_tables, h_dc_tables, log, result>>
    /\ UNCHANGED <<size_data, data_area>>

\* lines 71, 80: a read outside a vector may end the process
BuildCrash ==
    /\ hpc = "call"
    /\ HuffmanReadsOutside(size_data, data_area)
    /\ hpc' = "crashed"
    /\ UNCHANGED parserVars
    /\ UNCHANGED <<size_data, data_area, huffman_codes>>

BuilderNext == Build \/ BuildCrash

BuilderSpec == BuilderInit /\ [][BuilderNext]_vars

\* ------------------------------------------------------------------------
\* How a run ends, as the caller of parse() / from_size_data sees it.  No
\* statement of the source throws a typed error: line 254 ends the process.
\* ------------------------------------------------------------------------
Outcome ==
    CASE pc = "returned" -> "returned"
      [] pc = "terminated" -> "std::terminate"
      [] pc = "crashed" -> "fault"
      [] OTHER -> "running"

BuilderOutcome ==
    CASE hpc = "built" -> "returned"
      [] hpc = "crashed" -> "fault"
      [] OTHER -> "running"

\* ------------------------------------------------------------------------
\* Properties
\* ------------------------------------------------------------------------
\* SOI, APP0 of declared length 16 (valid unit, thumbnail 0x0), EOI
SoiApp0Eoi ==
    /\ Len(raw_data) = 22
    /\ SubSeq(raw_data, 1, 6) = <<MarkerPrefix, SOI, MarkerPrefix, APP0, 0, 16>>
    /\ raw_data[14] \in {0, 1, 2}
    /\ raw_data[19] = 0
    /\ raw_data[20] = 0
    /\ SubSeq(raw_data, 21, 22) = <<MarkerPrefix, EOI>>

\* C1: on a stream SOI, APP0 (length 16, valid density unit, thumbnail 0x0),
\* EOI, parse() neither ends the process nor reads outside the buffer, it
\* stops only by returning, and when it returns exactly one segment was
\* handled, an APP0 whose fields are the payload's, and the cursor equals
\* the stream length.
C1_ParsesOneApp0 ==
    SoiApp0Eoi =>
        /\ pc \in {"scan", "segment", "returned"}
        /\ outside = 0
        /\ (pc = "returned" \/ ENABLED Next)
        /\ pc = "returned" =>
            /\ index = Len(raw_data)
            /\ Len(log) = 1
            /\ log[1][1] = APP0
            /\ result[1].metadata.version = <<raw_data[12], raw_data[13]>>
            /\ result[1].metadata.density_unit = raw_data[14]
            /\ result[1].metadata.x_density = raw_data[15] * 256 + raw_data[16]
            /\ result[1].metadata.y_density = raw_data[17] * 256 + raw_data[18]
            /\ result[1].metadata.thumbnail_data = <<>>

C1_Witness ==
    /\ SoiApp0Eoi
    /\ pc = "returned"
    /\ index = 22
    /\ Len(log) = 1
    /\ result[1].metadata.density_unit = 2

\* C2: whenever the scanner is at a marker position inside the buffer and the
\* byte there is not 0xFF, parse() fails with the error InvalidMarkerPrefix
\* and returns no header.
C2_InvalidMarkerPrefix ==
    [][(pc = "scan" /\ index < Size /\ Mem(index) # MarkerPrefix)
        => (Outcome' = "InvalidMarkerPrefix" /\ result' = <<>>)]_vars

\* C3: a DQT table that needs more bytes than the buffer has left makes
\* parse() fail with UnexpectedEof, and no position outside the buffer is read.
C3_TruncatedDqt ==
    [][(pc = "segment" /\ marker = DQT /\ index < segment_end
            /\ ReadsOutside(index, 1 + QTableSize))
        => (Outcome' = "UnexpectedEof" /\ outside' = outside)]_vars

\* C4: in every state of a parse the cursor is within the buffer,
\* 0 <= index <= size (stated for the runs that have read nothing outside
\* the buffer, where every byte read is a byte of the input).
C4_CursorInBuffer ==
    (pc # "idle" /\ outside = 0) => (0 <= index /\ index <= Size)

\* C5: decoding a quantization table whose first byte has low nibble k and
\* whose next 64 bytes are v returns a table holding v in order together with
\* the identifier k, and advances the cursor by 65.
C5_QuantizationRoundTrip ==
    (pc = "segment" /\ marker = DQT /\ index < segment_end
        /\ ~ReadsOutside(index, 1 + QTableSize)) =>
        LET r == parse_quantization_table(index)
        IN  /\ r.index = index + 65
            /\ r.value.data = SubSeq(raw_data, index + 2, index + 65)
            /\ "identifier" \in DOMAIN r.value
            /\ r.value.identifier = LowNibble(raw_data[index + 1])

\* C6: quantization tables are kept by wire identifier, last write wins: a
\* table decoded with identifier k becomes the table held for k and leaves
\* the other slots as they were.
C6_KeyedByIdentifier ==
    [][(pc = "segment" /\ marker = DQT /\ index < segment_end
            /\ ~ReadsOutside(index, 1 + QTableSize)
            /\ LowNibble(Mem(index)) < QTableSlots /\ pc' = "segment")
        => LET k == LowNibble(Mem(index))
           IN  /\ q_tables'[k].data = SubSeq(raw_data, index + 2, index + 65)
               /\ \A j \in DOMAIN q_tables : j # k => q_tables'[j] = q_tables[j]]_vars

\* sum over the lengths l of count[l] * 2^(16 - l): the code space used
RECURSIVE KraftSum(_, _)
KraftSum(counts, l) ==
    IF l > Len(counts) THEN 0
    ELSE counts[l] * Pow2(HuffSizes - l) + KraftSum(counts, l + 1)

OverSubscribed(counts) == KraftSum(counts, 1) > TwoTo16

\* the bit length of the i-th code: the least l with at least i codes of
\* length <= l
LengthOfEntry(counts, i) ==
    CHOOSE l \in 1..Len(counts) :
        /\ SumSeq(SubSeq(counts, 1, l)) >= i
        /\ SumSeq(SubSeq(counts, 1, l - 1)) < i

\* C7: for counts that do not over-subscribe the code space and as many
\* symbols as codes, the table built has one entry per symbol, in symbol
\* order, with the canonical code: 0 for the first entry, and for each next
\* entry (previous code + 1) shifted left by the increase in bit length; with
\* at least one code the build reads nothing outside its vectors.
C7_CanonicalCodes ==
    (hpc # "call" /\ ~OverSubscribed(size_data)
        /\ Len(data_area) = SumSeq(size_data)) =>
        /\ Len(data_area) > 0 => (hpc = "built" /\ outside = 0)
        /\ hpc = "built" =>
            /\ Len(huffman_codes) = Len(data_area)
            /\ \A i \in 1..Len(huffman_codes) :
                /\ huffman_codes[i].value = data_area[i]
                /\ huffman_codes[i].length = LengthOfEntry(size_data, i)
                /\ huffman_codes[i].code =
                     IF i = 1 THEN 0
                     ELSE (huffman_codes[i - 1].code + 1)
                          * Pow2(huffman_codes[i].length - huffman_codes[i - 1].length)
            /\ (size_data = CountsOf(<<1, 1>>) /\ data_area = <<1, 2>>) =>
                huffman_codes = << [length |-> 1, code |-> 0, value |-> 1],
                                   [length |-> 2, code |-> 2, value |-> 2] >>
            /\ (size_data = CountsOf(<<0, 1>>) /\ data_area = <<171>>) =>
                huffman_codes = << [length |-> 2, code |-> 0, value |-> 171] >>

C7_Witness ==
    /\ hpc = "built"
    /\ size_data = CountsOf(<<1, 1, 1>>)
    /\ data_area = <<171, 172, 173>>
    /\ huffman_codes[3] = [length |-> 3, code |-> 6, value |-> 173]

\* C8: for every input the running 16-bit code never wraps, by increment or
\* by shift, and the table holds no more entries than codes were assigned
\* (stated for the inputs with as many symbols as the counts announce).
C8_NoWrap ==
    (hpc = "built" /\ Len(data_area) = SumSeq(size_data)) =>
        /\ ~CodeRun(codes_length(size_data)).wrapped
        /\ Len(huffman_codes) <= Len(make_code_table(codes_length(size_data)))

\* C9: a build whose symbols are not as many as the sum of the counts, or
\* whose sum exceeds 256, fails with InvalidHuffmanTable and produces no table.
C9_InvalidHuffmanTable ==
    (hpc # "call" /\ (Len(data_area) # SumSeq(size_data) \/ SumSeq(size_data) > 256)) =>
        /\ BuilderOutcome = "InvalidHuffmanTable"
        /\ hpc # "built"

\* C10: decoding an APP0 whose density unit byte is outside {0, 1, 2} fails
\* with UnknownDensityUnit; a header is only produced with unit 0, 1 or 2.
C10_DensityUnit ==
    [][(pc = "segment" /\ marker = APP0 /\ ~parse_jfif_data(index).outside)
        => IF Mem(index + 7) \in {0, 1, 2}
           THEN jfif_data'.density_unit \in {0, 1, 2}
           ELSE (Outcome' = "UnknownDensityUnit" /\ jfif_data' = jfif_data)]_vars

\* ascending bit length, and ascending code among entries of equal length
SortedCodes(codes) ==
    \A i \in 1..(Len(codes) - 1) :
        /\ codes[i].length <= codes[i + 1].length
        /\ codes[i].length = codes[i + 1].length => codes[i].code < codes[i + 1].code

\* C11: every table the builder returns is sorted, by ascending bit length
\* and, within one length, by strictly ascending code (stated for the inputs
\* with as many symbols as the counts announce).
C11_SortedTable ==
    (hpc = "built" /\ Len(data_area) = SumSeq(size_data)) => SortedCodes(huffman_codes)

\* parse() has ended: returned, std::terminate, or a fault
\* the cursor at the head of the loop turn that read the current segment header
TurnStart == segment_end - length - 2

\* C12: the marker loop terminates on every input: a turn of the outer loop
\* starts only below the end of the buffer and a turn of a table loop only
\* below the end of the segment, every step that stays in the loop moves the
\* cursor forward (a whole turn ends past the position it started at, also
\* for a declared length of 0 or 1), and at the exhausted buffer the only
\* step is the return of what was collected.
C12_LoopTerminates ==
    [][/\ (pc = "scan" /\ pc' \in {"scan", "segment"}) =>
             (index < Size /\ index' > index)
       /\ (pc = "segment" /\ pc' = "segment") =>
             (index < segment_end /\ index' > index)
       /\ (pc = "segment" /\ pc' = "scan") => index' > TurnStart
       /\ (pc = "scan" /\ index >= Size) =>
             /\ pc' = "returned"
             /\ result'[1].metadata = jfif_data
             /\ result'[1].q_tables = q_tables
             /\ result'[1].huffman_dc_tables = h_dc_tables
             /\ result'[1].huffman_ac_tables = h_ac_tables]_vars

\* a segment that declares the length 0 has been skipped: the next turn
\* starts two bytes after the turn that read it
C12_Witness ==
    /\ raw_data = <<MarkerPrefix, 225, 0, 0, 7, 7>>
    /\ pc = "scan"
    /\ length = 0
    /\ index = 2

ScanSeen == \E k \in DOMAIN log : log[k][1] = SOS

Tables == <<jfif_data, q_tables, q_tables_nbr, h_ac_tables, h_dc_tables>>

\* C13: start-of-scan is terminal: the step that handles marker 0xDA puts the
\* cursor at the length of the buffer and changes no header and no table, and
\* the only step after it is the return, with the header and the tables as
\* they were when the marker was met, whatever bytes follow.
C13_ScanIsTerminal ==
    [][/\ (pc = "segment" /\ marker = SOS) =>
             (index' = Size /\ pc' = "scan" /\ Tables' = Tables)
       /\ (pc = "scan" /\ ScanSeen) =>
             /\ index = Size
             /\ pc' = "returned"
             /\ Tables' = Tables
             /\ result'[1].metadata = jfif_data
             /\ result'[1].q_tables = q_tables
             /\ result'[1].huffman_dc_tables = h_dc_tables
             /\ result'[1].huffman_ac_tables = h_ac_tables]_vars

\* a start-of-scan segment followed by a quantization segment of two tables
\* and a Huffman segment: the run returned with no table stored
C13_Witness ==
    /\ pc = "returned"
    /\ log = <<<<SOS, 4>>>>
    /\ raw_data = Segment(SOS, <<>>, 0)
                     \o Segment(DQT, DqtTableBytes(1, 100) \o DqtTableBytes(17, 150), 0)
                     \o Segment(DHT, DhtTableBytes(0, CountsOf(<<1, 1>>), <<1, 2>>), 0)
    /\ result[1].q_tables_nbr = 0
    /\ result[1].huffman_dc_tables[0] = EmptyHuffman

\* C14: when the table loop of a DQT or DHT segment stops, the cursor is
\* exactly at segment_end. Stated for the runs that read nothing outside the
\* buffer and for declared lengths of at least 2 (the two length bytes).
C14_EndsAtSegmentEnd ==
    (/\ pc = "segment"
     /\ marker \in {DQT, DHT}
     /\ length >= 2
     /\ outside = 0
     /\ index >= segment_end) => index = segment_end

\* C15: the step that handles a start-of-frame segment (0xC0) or a segment
\* of any marker without a handler leaves the cursor at segment_end, which is
\* the cursor behind the length bytes plus the declared length minus 2, and
\* changes no header field and no table.
C15_SkippedSegment ==
    [][(pc = "segment" /\ marker \notin {APP0, DQT, DHT, SOS}) =>
          /\ pc' = "scan"
          /\ index' = segment_end
          /\ index' = index + (length - 2)
          /\ Tables' = Tables]_vars

\* a start-of-frame segment declaring 65535 bytes has been skipped
C15_Witness ==
    /\ raw_data = <<MarkerPrefix, SOF0, 255, 255, 7, 7>>
    /\ pc = "scan"
    /\ marker = SOF0
    /\ length = 65535
    /\ index = 65537

\* the symbol bytes of a table, in the order stored
ValuesOf(table) == [i \in 1..Len(table.codes) |-> table.codes[i].value]

\* C16: a turn of the DHT loop that stays inside the buffer stores the table
\* read under the class and identifier of its first byte: class 0 in DC slot
\* d, class 1 in AC slot d, with d the low nibble as found on the wire; the
\* table stored carries one code per symbol byte of the wire (whatever the
\* slot held before), and every other slot of both classes keeps its table.
C16_StoredUnderClassAndId ==
    [][(/\ pc = "segment"
        /\ marker = DHT
        /\ pc' = "segment"
        /\ index' # index
        /\ outside' = outside) =>
          LET c == raw_data[index + 1] \div 16
              d == raw_data[index + 1] % 16
              counts == SubSeq(raw_data, index + 2, index + 1 + HuffSizes)
              n == SumSeq(counts)
              symbols == SubSeq(raw_data, index + 2 + HuffSizes, index + 1 + HuffSizes + n)
              table == [codes |-> from_size_data(counts, symbols, garbage)]
          IN  /\ c = 0 =>
                    /\ h_dc_tables'[d] = table
                    /\ ValuesOf(h_dc_tables'[d]) = symbols
                    /\ \A k \in 0..(HuffSlots - 1) : k # d => h_dc_tables'[k] = h_dc_tables[k]
                    /\ h_ac_tables' = h_ac_tables
              /\ c = 1 =>
                    /\ h_ac_tables'[d] = table
                    /\ ValuesOf(h_ac_tables'[d]) = symbols
                    /\ \A k \in 0..(HuffSlots - 1) : k # d => h_ac_tables'[k] = h_ac_tables[k]
                    /\ h_dc_tables' = h_dc_tables]_vars

\* a DC table 0, then an AC table 1 and a second DC table 0: the second DC
\* table has replaced the first, the AC table sits in AC slot 1
C16_Witness ==
    /\ pc = "returned"
    /\ outside = 0
    /\ raw_data = Segment(DHT, DhtTableBytes(0, CountsOf(<<1, 1>>), <<1, 2>>), 0)
                     \o Segment(DHT, DhtTableBytes(17, CountsOf(<<0, 1>>), <<171>>)
                                      \o DhtTableBytes(0, CountsOf(<<0, 2, 1>>), <<5, 6, 7>>), 0)
    /\ ValuesOf(result[1].huffman_dc_tables[0]) = <<5, 6, 7>>
    /\ ValuesOf(result[1].huffman_ac_tables[1]) = <<171>>
    /\ result[1].huffman_ac_tables[0] = EmptyHuffman
    /\ result[1].huffman_dc_tables[1] = EmptyHuffman

\* C17: the quantization-table store is never written past its four slots:
\* when a turn of the DQT loop is about to store a table, the slot index
\* q_tables_nbr is one of 0..3, and the number of tables stored is at most 4.
\* Stated for the runs that have read nothing outside a container so far.
C17_FourQuantizationTables ==
    /\ outside = 0 => q_tables_nbr <= QTableSlots
    /\ (pc = "segment" /\ marker = DQT /\ index < segment_end /\ outside = 0) =>
          q_tables_nbr \in 0..(QTableSlots - 1)

\* the code of entry a, read as a bit string of its length, starts the code
\* of entry b
IsPrefix(a, b) ==
    /\ a.length <= b.length
    /\ b.code \div Pow2(b.length - a.length) = a.code

\* C18: for counts within the Kraft bound (the sum of count[L] * 2^(16 - L)
\* is at most 2^16) with at least one code, the table built is a prefix
\* code: every code is below 2^length and no entry's code is a prefix of
\* another entry's. Stated for the builds that are given no more symbols
\* than the counts announce, which read nothing outside a vector.
C18_PrefixCode ==
    (/\ hpc = "built"
     /\ ~OverSubscribed(size_data)
     /\ SumSeq(size_data) >= 1
     /\ Len(data_area) <= SumSeq(size_data)) =>
        /\ outside = 0
        /\ \A i \in 1..Len(huffman_codes) :
              huffman_codes[i].code < Pow2(huffman_codes[i].length)
        /\ \A i, j \in 1..Len(huffman_codes) :
              i # j => ~IsPrefix(huffman_codes[i], huffman_codes[j])

\* the complete code of 17 entries: one code per length 1..15 and two of
\* length 16, the last being 0xffff
C18_Witness ==
    /\ hpc = "built"
    /\ size_data = Ladder(2)
    /\ KraftSum(size_data, 1) = TwoTo16
    /\ Len(huffman_codes) = 17
    /\ huffman_codes[16].code = CodeSentinel - 1
    /\ huffman_codes[17].code = CodeSentinel

\* C19: the step that decodes an APP0 segment moves the cursor forward by
\* exactly 14 bytes whatever the thumbnail width and height are; when it
\* reads inside the buffer, the header holds width * height pixels and pixel
\* i (from 0) is made of the bytes at positions i, i + 1, i + 2 of the whole
\* buffer, not of bytes at the cursor.
C19_App0AdvancesFourteen ==
    [][(pc = "segment" /\ marker = APP0 /\ pc' = "scan") =>
          /\ index' = index + 14
          /\ outside' = outside =>
                LET w == raw_data[index + 13]
                    h == raw_data[index + 14]
                    pixels == jfif_data'.thumbnail_data
                IN  /\ jfif_data'.x_thumbnail = w
                    /\ jfif_data'.y_thumbnail = h
                    /\ Len(pixels) = w * h
                    /\ \A i \in 1..(w * h) :
                          pixels[i] = <<raw_data[i], raw_data[i + 1], raw_data[i + 2]>>]_vars

\* an APP0 segment with a 2 x 2 thumbnail decoded: four pixels, made of the
\* first six bytes of the stream, and the cursor 14 bytes behind the length
C19_Witness ==
    /\ pc = "scan"
    /\ outside = 0
    /\ log = <<<<APP0, 4>>>>
    /\ index = 18
    /\ jfif_data.x_thumbnail = 2
    /\ jfif_data.y_thumbnail = 2
    /\ jfif_data.thumbnail_data =
         << <<MarkerPrefix, APP0, 0>>, <<APP0, 0, 16>>, <<0, 16, 74>>, <<16, 74, 70>> >>

====
